---- MODULE Spec2Model ----
(***************************************************************************)
(* softpotato: the one-dimensional diffusion / Butler-Volmer simulators    *)
(* sim.Macro, simulate.E and simulate2.Simulate, as state machines.        *)
(*                                                                         *)
(* Numbers.  The programs compute in IEEE doubles.  Here a real v is the   *)
(* integer Round(v * Scale): fixed point with Scale units per 1, every     *)
(* product and quotient rounded to the nearest unit, as a double rounds    *)
(* to its nearest representable value.  One unit is the model's "ulp".     *)
(* Potentials are in volts (so one unit is 1/Scale V), times in seconds,   *)
(* diffusion coefficients in 1e-5 cm2/s, areas in cm2.                     *)
(***************************************************************************)
EXTENDS Integers, Sequences, FiniteSets, TLC

\* ---------------------------------------------------------------- bounds
Scale == 1000          \* fixed-point units per 1
MaxNT == 4             \* largest number of time points of a waveform
ExpTerms == 12         \* terms of the exponential series

\* ------------------------------------------------------------- constants
F == 96485             \* C/mol, Faraday constant
RMilli == 8315         \* R = 8.315 J/mol K, in thousandths
Temp == 298            \* K
LambPercent == 45      \* lamb = 0.45, in hundredths
XmaxFactor == 6        \* Xmax = 6*sqrt(nT*lamb)

\* ------------------------------------------------------------ arithmetic
Abs(a) == IF a < 0 THEN -a ELSE a

\* the doubles inf, -inf and nan (zero is unsigned here)
PInf == 2147483646
NInf == -2147483646
NaN == 2147483647

IsInf(a) == a = PInf \/ a = NInf

\* np.isfinite
Finite(a) == a # NaN /\ ~IsInf(a)

\* n/d rounded to the nearest integer, d > 0
Round(n, d) == (n + d \div 2) \div d

\* unary minus
Neg(a) == IF a = NaN THEN NaN ELSE -a

\* float sum
Add(a, b) ==
    IF a = NaN \/ b = NaN THEN NaN
    ELSE IF IsInf(a) THEN (IF IsInf(b) /\ b # a THEN NaN ELSE a)
    ELSE IF IsInf(b) THEN b
    ELSE a + b

\* float difference
Sub(a, b) == Add(a, Neg(b))

\* the sum and the difference, written infix
a ++ b == Add(a, b)
a -- b == Sub(a, b)

\* the infinity with the sign of a product or quotient of a and b
SignedInf(a, b) == IF (a < 0) = (b < 0) THEN PInf ELSE NInf

Mul(a, b) ==
    IF a = NaN \/ b = NaN THEN NaN
    ELSE IF IsInf(a) \/ IsInf(b)
         THEN (IF a = 0 \/ b = 0 THEN NaN ELSE SignedInf(a, b))
    ELSE Round(a * b, Scale)

\* numpy division: x/0 is inf or nan (a warning, not an exception)
Div(a, b) ==
    IF a = NaN \/ b = NaN THEN NaN
    ELSE IF IsInf(a) THEN (IF IsInf(b) THEN NaN ELSE SignedInf(a, b))
    ELSE IF IsInf(b) THEN 0
    ELSE IF b = 0 THEN (IF a = 0 THEN NaN ELSE SignedInf(a, b))
    ELSE IF b < 0 THEN Round((-a) * Scale, -b)
    ELSE Round(a * Scale, b)

Fx(n) == n * Scale

\* an integer times a float
Times(n, a) == IF Finite(a) THEN n * a ELSE Mul(Fx(n), a)

RECURSIVE ISqrtIter(_, _, _)
ISqrtIter(n, lo, hi) ==
    IF lo >= hi THEN lo
    ELSE LET mid == (lo + hi + 1) \div 2
         IN  IF mid * mid <= n THEN ISqrtIter(n, mid, hi)
                               ELSE ISqrtIter(n, lo, mid - 1)

\* np.sqrt: the square root rounded to the nearest unit; nan below zero
Sqrt(a) ==
    IF a = NaN \/ a < 0 THEN NaN
    ELSE IF a = PInf THEN PInf
    ELSE LET n == a * Scale
             r == ISqrtIter(n, 0, IF n < 46340 THEN n ELSE 46340)
         IN  IF n - r * r > r THEN r + 1 ELSE r

RECURSIVE ExpSeries(_, _, _, _)
ExpSeries(x, term, n, acc) ==
    IF n > ExpTerms \/ term = 0 THEN acc
    ELSE LET t == Round(term * x, Scale * n)
         IN  ExpSeries(x, t, n + 1, acc + t)

\* exp(x) overflows to inf above 709.78 and underflows to 0 below -745.13
ExpOverflow == 709782
ExpUnderflow == 745133

\* np.exp
Exp(x) ==
    IF x = NaN THEN NaN
    ELSE IF x > ExpOverflow THEN PInf
    ELSE IF x < -ExpUnderflow THEN 0
    ELSE IF x >= 0 THEN ExpSeries(x, Scale, 1, Scale)
    ELSE Div(Scale, ExpSeries(-x, Scale, 1, Scale))

\* np.linspace(a, b, n)[j]
Linspace(a, b, n, j) == IF n = 1 THEN a ELSE a + Round(j * (b - a), n - 1)

FRT == Round(F * Scale, Round(RMilli * Temp, 1000))

\* ------------------------------------------------------------- waveforms
\* tech.Step with nt points: E = ones(nt)*Es, t = linspace(0, ttot, nt)
StepWf(Es, ttot, nt) ==
    [E |-> [j \in 0..(nt - 1) |-> Es],
     t |-> [j \in 0..(nt - 1) |-> Linspace(0, ttot, nt, j)]]

\* tech.Sweep with ns = 1 and nt points: E = linspace(Eini, Efin, nt)
SweepWf(Eini, Efin, tsw, nt) ==
    [E |-> [j \in 0..(nt - 1) |-> Linspace(Eini, Efin, nt, j)],
     t |-> [j \in 0..(nt - 1) |-> Linspace(0, tsw, nt, j)]]

\* np.size(t), t[-1]
Size(a) == Cardinality(DOMAIN a)
Last(a) == a[Size(a) - 1]

EStep == Scale \div 20       \* 0.05 V

Waveforms ==
    UNION {{StepWf(-EStep, Fx(1), n), StepWf(EStep, Fx(1), n),
            SweepWf(-EStep, EStep, Fx(1), n)} : n \in 1..MaxNT}

\* -------------------------------------------------- the dimensionless grid
\* self.dT = 1/self.nT
dTOf(n) == Div(Fx(1), Fx(n))

\* self.lamb = 0.45
lambOf == Round(LambPercent * Scale, 100)

\* self.Xmax = 6*np.sqrt(self.nT*self.lamb)
XmaxOf(n, la) == XmaxFactor * Sqrt(n * la)

\* mutant: the increment taken as sqrt(dT*lamb)
dXOfProduct(dt, la) == Sqrt(Mul(dt, la))

\* self.dX = np.sqrt(self.dT/self.lamb)
dXOf(dt, la) == Sqrt(Div(dt, la))

\* self.nX = int(self.Xmax/self.dX)
nXOf(xm, dx) == xm \div dx

\* self.X = np.linspace(0, self.Xmax, self.nX)
XOf(xm, cols) == [j \in 0..(cols - 1) |-> Linspace(0, xm, cols, j)]

\* ------------------------------------------------------------------ state
VARIABLES
    impl,    \* "Macro" (sim.py), "E" (simulate.py), "Simulate" (simulate2.py)
    wf,      \* the waveform object: arrays t and E
    par,     \* the species parameters: BV, DO, DR, cOb, cRb, ks, alpha, n, E0, Ageo
    pc,      \* "new", "init", "ready", "bc", "diff", "post", "done", "raised"
    err,     \* the exception raised, "" when none
    nT, dT, lamb, Xmax, dX, nX,
    X,       \* the dimensionless distance axis
    eps, delta, K0, DOR,
    CR, CO,  \* the concentration fields, (nT, nX); <<>> when not allocated or released
    CP, Kc,  \* simulate2, the C species: its field and normalised rate constant
    k,       \* the time row being computed
    i, x, cR, cO,   \* the outputs
    cP,      \* simulate2: the reported field of the C species
    runs,    \* 1 during the first run of the configuration, 2 during the second
    again,   \* how the second run started: "" / "same" (same object) / "fresh"
    first,   \* the outputs of the first run
    rd,      \* the time rows the last step read
    tgCall,  \* timegrid.py: the arguments of the uniform_time_grid call
    tgRet,   \* the TimeGrid it returned, <<>> when none
    tgExc,   \* the exception it raised, "" when none
    heap,    \* timegrid.py, TimeGrid objects: the arrays, by object identity
    tg,      \* the TimeGrid object: the identity of its array t, <<>> when none
    held,    \* the identities of the arrays the caller holds a reference to
    built,   \* the values the TimeGrid was constructed with
    tvLast,  \* the last call on the time vector, its arguments and its outcome
    writes,  \* the number of element writes made by the caller
    wvCall,  \* waveforms.py, validation.py, tech.py: the call made
    wvRet,   \* what it returned, <<>> when nothing
    wvExc    \* the exception it raised, "" when none

vars == <<impl, wf, par, pc, err, nT, dT, lamb, Xmax, dX, nX, X, eps, delta, K0,
          DOR, CR, CO, CP, Kc, k, i, x, cR, cO, cP, runs, again, first, rd,
          tgCall, tgRet, tgExc, heap, tg, held, built, tvLast, writes,
          wvCall, wvRet, wvExc>>

gridVars == <<nT, dT, lamb, Xmax, dX, nX, X>>
tgVars == <<tgCall, tgRet, tgExc>>
\* what no operation of the simulators assigns
tvVars == <<heap, tg, held, built, tvLast, writes>>
wvVars == <<wvCall, wvRet, wvExc>>
cfgVars == <<impl, wf, par, tgVars, tvVars, wvVars>>

\* no TimeGrid object and no waveform call
NoTimeVector ==
    /\ heap = <<>> /\ tg = <<>> /\ held = {} /\ built = <<>> /\ tvLast = <<>>
    /\ writes = 0
NoWaveformCall == wvCall = <<>> /\ wvRet = <<>> /\ wvExc = ""
outVars == <<i, x, cR, cO>>
runVars == <<runs, again, first>>
ecVars == <<CP, Kc, cP>>

Diffusions == {<<Fx(1), Fx(1)>>, <<Fx(2), Fx(1)>>, <<Fx(1), Fx(2)>>}
Bulks == {<<Fx(1), 0>>, <<0, Fx(1)>>, <<Fx(1) \div 2, Fx(1)>>}
Rates == {Fx(1), Fx(20)}
Regimes == {"QR", "RO", "OR"}

Mechanisms == {"E", "EC"}

\* mech 'E' is run with the species list [e], mech 'EC' with [e, c]
Params ==
    [BV : Regimes, D : Diffusions, c : Bulks, ks : Rates,
     alpha : {Scale \div 2}, n : {1}, E0 : {0}, Ageo : {1},
     mech : Mechanisms, kc : {Fx(1)}]

Init ==
    /\ impl \in {"Macro", "E", "Simulate"}
    /\ wf \in Waveforms
    /\ par \in Params
    /\ impl # "Macro" => par.BV = "QR"
    /\ impl # "Simulate" => par.mech = "E"
    /\ pc = "new" /\ err = ""
    /\ nT = 0 /\ dT = 0 /\ lamb = 0 /\ Xmax = 0 /\ dX = 0 /\ nX = 0 /\ X = <<>>
    /\ eps = <<>> /\ delta = 0 /\ K0 = 0 /\ DOR = 0
    /\ CR = <<>> /\ CO = <<>> /\ CP = <<>> /\ Kc = 0
    /\ k = 0
    /\ i = <<>> /\ x = <<>> /\ cR = <<>> /\ cO = <<>> /\ cP = <<>>
    /\ runs = 1 /\ again = "" /\ first = <<>>
    /\ rd = {}
    /\ tgCall = <<>> /\ tgRet = <<>> /\ tgExc = ""
    /\ NoTimeVector /\ NoWaveformCall

DO == par.D[1]
DR == par.D[2]
cOb == par.c[1]
cRb == par.c[2]

\* ------------------------------------------------- species initialisation
\* np.zeros / np.ones([nT, nX]); CO = ones*cOb/cRb when R is in the bulk
InitCR(crb, rows, cols) ==
    [r \in 0..(rows - 1) |-> [j \in 0..(cols - 1) |->
        IF crb = 0 THEN 0 ELSE Fx(1)]]

InitCO(cob, crb, rows, cols) ==
    [r \in 0..(rows - 1) |-> [j \in 0..(cols - 1) |->
        IF crb = 0 THEN Fx(1) ELSE Div(Mul(Fx(1), cob), crb)]]

\* eps = (E - E0)*n*FRT
epsOf(Ewf, E0, n) == [j \in DOMAIN Ewf |-> Mul(Times(n, Ewf[j] -- E0), FRT)]

\* delta = sqrt(DR*t[-1]);  K0 = ks*delta/DR
deltaOf(dr, t) == Sqrt(Mul(dr, Last(t)))
K0Of(ks, de, dr) == Div(Mul(ks, de), dr)

\* mutant: a step that reads the row it is writing
PrevRowSame(kk) == kk

\* the time row a step reads: the index k-1 of CR[k-1, ...] and CO[k-1, ...]
PrevRow(kk) == kk - 1

\* -------------------------------------------------- Butler-Volmer boundary
\* mutant: the QR branch without the 1/DOR weights, the other branches with
\* the exponents exchanged
bcSlip(BV, CR1kb, CO1kb, e, dx, k0, al, dor) ==
    IF BV = "QR" THEN
        LET cr == Div(CR1kb ++ Mul(Mul(Mul(dx, k0), Exp(Mul(-al, e))),
                                   CO1kb ++ CR1kb),
                      Fx(1) ++ Mul(Mul(dx, k0),
                                   Exp(Mul(Fx(1) - al, e)) ++ Exp(Mul(-al, e))))
        IN  <<cr, CO1kb ++ Div(CR1kb -- cr, dor)>>
    ELSE IF BV = "RO" THEN
        LET cr == Div(CR1kb, Fx(1) ++ Mul(Mul(dx, k0), Exp(Mul(-al, e))))
        IN  <<cr, CO1kb ++ Div(CR1kb -- cr, dor)>>
    ELSE
        LET co == Div(CO1kb, Fx(1) ++ Mul(Mul(dx, k0), Exp(Mul(Fx(1) - al, e))))
        IN  <<CR1kb ++ Div(CO1kb -- co, dor), co>>

\* sim.Macro.bc
bc(BV, CR1kb, CO1kb, e, dx, k0, al, dor) ==
    IF BV = "QR" THEN
        LET cr == Div(CR1kb ++ Mul(Mul(Mul(dx, k0), Exp(Mul(-al, e))),
                                   CO1kb ++ Div(CR1kb, dor)),
                      Fx(1) ++ Mul(Mul(dx, k0),
                                   Exp(Mul(Fx(1) - al, e))
                                   ++ Div(Exp(Mul(-al, e)), dor)))
        IN  <<cr, CO1kb ++ Div(CR1kb -- cr, dor)>>
    ELSE IF BV = "RO" THEN
        LET cr == Div(CR1kb, Fx(1) ++ Mul(Mul(dx, k0), Exp(Mul(Fx(1) - al, e))))
        IN  <<cr, CO1kb ++ Div(CR1kb -- cr, dor)>>
    ELSE
        LET co == Div(CO1kb, Fx(1) ++ Mul(Mul(dx, k0), Exp(Mul(-al, e))))
        IN  <<CR1kb ++ Div(CO1kb -- co, dor), co>>

\* simulate.E.run, the boundary lines: <<CR[k,0], CO[k,0]>>
runBoundary(CR1kb, CO1kb, e, dx, k0, al, dor) ==
    LET cr == Div(CR1kb ++ Mul(Mul(Mul(dx, k0), Exp(Mul(-al, e))),
                               CO1kb ++ Div(CR1kb, dor)),
                  Fx(1) ++ Mul(Mul(dx, k0),
                               Exp(Mul(Fx(1) - al, e))
                               ++ Div(Exp(Mul(-al, e)), dor)))
    IN  <<cr, CO1kb ++ Div(CR1kb -- cr, dor)>>

\* --------------------------------------------------------- explicit stepper
\* range(1, nX-1), the slice 1:-1
InteriorNodes(cols) == 1..(cols - 2)

\* mutant: the centre term taken once instead of twice
FTCSCentreOnce(prev, coef, cols) ==
    [j \in InteriorNodes(cols) |->
        prev[j] ++ Mul(coef, (prev[j + 1] -- prev[j]) ++ prev[j - 1])]

\* mutant: the loop run to the last node, the missing neighbour read as 0
FTCSOpenEnd(prev, coef, cols) ==
    [j \in 1..(cols - 1) |->
        prev[j] ++ Mul(coef, ((IF j + 1 < cols THEN prev[j + 1] ELSE 0)
                              -- Times(2, prev[j])) ++ prev[j - 1])]

\* C[k-1,j] + coef*(C[k-1,j+1] - 2*C[k-1,j] + C[k-1,j-1]) on the interior nodes
FTCS(prev, coef, cols) ==
    [j \in InteriorNodes(cols) |->
        prev[j] ++ Mul(coef, (prev[j + 1] -- Times(2, prev[j])) ++ prev[j - 1])]

\* sim.Macro.sim: the coefficients of the CR and of the CO update
MacroCoefCR(la, dor) == la
MacroCoefCO(la, dor) == Mul(dor, la)

\* simulate.E.run: the coefficients of the CR and of the CO update
RunCoefCR(la, dor) == la
RunCoefCO(la, dor) == la

\* row kk of field C with the cells of w overwritten
WriteRow(C, kk, w) ==
    [C EXCEPT ![kk] = [j \in DOMAIN C[kk] |-> IF j \in DOMAIN w THEN w[j] ELSE C[kk][j]]]

\* ------------------------------------------------------------ post-process
\* I = -C[:,2] + 4*C[:,1] - 3*C[:,0]  (R in the bulk), mirrored for O
FluxR(C) ==
    [r \in DOMAIN C |-> (Neg(C[r][2]) ++ Times(4, C[r][1])) -- Times(3, C[r][0])]
FluxO(C) ==
    [r \in DOMAIN C |-> (C[r][2] -- Times(4, C[r][1])) ++ Times(3, C[r][0])]

\* i = n*F*A*D*c*I/(2*dX*delta)
Current(n, A, D, c, I, dx, de) ==
    [r \in DOMAIN I |->
        Div(Mul(Mul(Mul(Mul(Fx(n * F), A), D), c), I[r]), Mul(Times(2, dx), de))]

\* field*c
Denorm(C, c) == [r \in DOMAIN C |-> [j \in DOMAIN C[r] |-> Mul(C[r][j], c)]]

\* (1 - field)*c
DenormRest(C, c) ==
    [r \in DOMAIN C |-> [j \in DOMAIN C[r] |-> Mul(Fx(1) -- C[r][j], c)]]

\* x = X*delta
Axis(XX, de) == [j \in DOMAIN XX |-> Mul(XX[j], de)]

Outputs == [i |-> i, x |-> x, cR |-> cR, cO |-> cO, cP |-> cP]

\* ------------------------------------------------------------ sim.Macro
Raise(e) == pc' = "raised" /\ err' = e

\* Macro.__init__(wf): self.dt = self.t[1] needs two time points
MacroInit ==
    /\ impl = "Macro" /\ pc = "new"
    /\ IF Size(wf.t) < 2
       THEN /\ Raise("IndexError")
            /\ UNCHANGED gridVars
       ELSE /\ nT' = Size(wf.t)
            /\ dT' = dTOf(nT')
            /\ lamb' = lambOf
            /\ Xmax' = XmaxOf(nT', lamb')
            /\ dX' = dXOf(dT', lamb')
            /\ nX' = nXOf(Xmax', dX')
            /\ X' = XOf(Xmax', nX')
            /\ pc' = "init" /\ err' = ""
    /\ UNCHANGED <<cfgVars, ecVars, eps, delta, K0, DOR, CR, CO, k, outVars, runVars, rd>>

\* Macro.Emech(...): the derived constants and the initial fields; DO/DR
\* divides two Python floats
Emech ==
    /\ impl = "Macro" /\ pc = "init"
    /\ delta' = deltaOf(DR, wf.t)
    /\ K0' = K0Of(par.ks, delta', DR)
    /\ IF DR = 0
       THEN /\ Raise("ZeroDivisionError")
            /\ UNCHANGED <<DOR, CR, CO>>
       ELSE /\ DOR' = Div(DO, DR)
            /\ CR' = InitCR(cRb, nT, nX)
            /\ CO' = InitCO(cOb, cRb, nT, nX)
            /\ pc' = "ready" /\ err' = ""
    /\ UNCHANGED <<cfgVars, ecVars, gridVars, eps, k, outVars, runVars, rd>>

\* Macro.sim, entry: eps, then the time loop for k in range(1, nT)
MacroSimStart ==
    /\ impl = "Macro" /\ pc = "ready"
    /\ eps' = epsOf(wf.E, par.E0, par.n)
    /\ k' = 1
    /\ pc' = IF 1 < nT THEN "bc" ELSE "post"
    /\ UNCHANGED <<cfgVars, ecVars, err, gridVars, delta, K0, DOR, CR, CO, outVars, runVars, rd>>

\* Macro.sim, the boundary condition of step k
MacroSimBc ==
    /\ impl = "Macro" /\ pc = "bc"
    /\ IF k \notin DOMAIN eps
       THEN /\ Raise("IndexError")
            /\ UNCHANGED <<CR, CO, rd>>
       ELSE /\ LET p == PrevRow(k)
                   s == bc(par.BV, CR[p][1], CO[p][1], eps[k], dX, K0,
                           par.alpha, DOR)
               IN  /\ CR' = WriteRow(CR, k, 0 :> s[1])
                   /\ CO' = WriteRow(CO, k, 0 :> s[2])
                   /\ rd' = {p}
            /\ pc' = "diff" /\ err' = ""
    /\ UNCHANGED <<cfgVars, ecVars, gridVars, eps, delta, K0, DOR, k, outVars, runVars>>

\* Macro.sim, the finite differences of step k
MacroSimInterior ==
    /\ impl = "Macro" /\ pc = "diff"
    /\ LET p == PrevRow(k)
       IN  /\ CR' = WriteRow(CR, k, FTCS(CR[p], MacroCoefCR(lamb, DOR), nX))
           /\ CO' = WriteRow(CO, k, FTCS(CO[p], MacroCoefCO(lamb, DOR), nX))
           /\ rd' = {p}
    /\ k' = k + 1
    /\ pc' = IF k + 1 < nT THEN "bc" ELSE "post"
    /\ UNCHANGED <<cfgVars, ecVars, err, gridVars, eps, delta, K0, DOR, outVars, runVars>>

\* Macro.sim, after the loop: the current and the denormalised outputs
MacroSimPost ==
    /\ impl = "Macro" /\ pc = "post"
    /\ IF nX < 3
       THEN /\ Raise("IndexError")
            /\ UNCHANGED outVars
       ELSE /\ i' = IF cRb # 0
                    THEN Current(par.n, par.Ageo, DR, cRb, FluxR(CR), dX, delta)
                    ELSE Current(par.n, par.Ageo, DO, cOb, FluxO(CO), dX, delta)
            /\ cR' = IF cRb # 0 THEN Denorm(CR, cRb) ELSE DenormRest(CO, cOb)
            /\ cO' = IF cRb # 0
                     THEN (IF cOb # 0 THEN Denorm(CO, cOb) ELSE DenormRest(CR, cRb))
                     ELSE Denorm(CO, cOb)
            /\ x' = Axis(X, delta)
            /\ pc' = "done" /\ err' = ""
    /\ UNCHANGED <<cfgVars, ecVars, gridVars, eps, delta, K0, DOR, CR, CO, k, runVars, rd>>

\* ------------------------------------------------------------ simulate.E
\* E.__init__(wf, ...)
EInit ==
    /\ impl = "E" /\ pc = "new"
    /\ IF DR = 0
       THEN /\ Raise("ZeroDivisionError")
            /\ UNCHANGED DOR
       ELSE /\ DOR' = Div(DO, DR)
            /\ pc' = "ready" /\ err' = ""
    /\ UNCHANGED <<cfgVars, ecVars, gridVars, eps, delta, K0, CR, CO, k, outVars, runVars, rd>>

\* E.run, entry: self.grid(), then the time loop
ERunGrid ==
    /\ impl = "E" /\ pc = "ready"
    /\ nT' = Size(wf.t)
    /\ dT' = dTOf(nT')
    /\ lamb' = lambOf
    /\ Xmax' = XmaxOf(nT', lamb')
    /\ dX' = dXOf(dT', lamb')
    /\ nX' = nXOf(Xmax', dX')
    /\ X' = XOf(Xmax', nX')
    /\ CR' = InitCR(cRb, nT', nX')
    /\ CO' = InitCO(cOb, cRb, nT', nX')
    /\ eps' = epsOf(wf.E, par.E0, par.n)
    /\ delta' = deltaOf(DR, wf.t)
    /\ K0' = K0Of(par.ks, delta', DR)
    /\ k' = 1
    /\ pc' = IF 1 < nT' THEN "bc" ELSE "post"
    /\ UNCHANGED <<cfgVars, ecVars, err, DOR, outVars, runVars, rd>>

\* E.run, the boundary condition of step k
ERunBc ==
    /\ impl = "E" /\ pc = "bc"
    /\ IF k \notin DOMAIN eps
       THEN /\ Raise("IndexError")
            /\ UNCHANGED <<CR, CO, rd>>
       ELSE /\ LET p == PrevRow(k)
                   s == runBoundary(CR[p][1], CO[p][1], eps[k], dX, K0,
                                    par.alpha, DOR)
               IN  /\ CR' = WriteRow(CR, k, 0 :> s[1])
                   /\ CO' = WriteRow(CO, k, 0 :> s[2])
                   /\ rd' = {p}
            /\ pc' = "diff" /\ err' = ""
    /\ UNCHANGED <<cfgVars, ecVars, gridVars, eps, delta, K0, DOR, k, outVars, runVars>>

\* E.run, the finite differences of step k
ERunInterior ==
    /\ impl = "E" /\ pc = "diff"
    /\ LET p == PrevRow(k)
       IN  /\ CR' = WriteRow(CR, k, FTCS(CR[p], RunCoefCR(lamb, DOR), nX))
           /\ CO' = WriteRow(CO, k, FTCS(CO[p], RunCoefCO(lamb, DOR), nX))
           /\ rd' = {p}
    /\ k' = k + 1
    /\ pc' = IF k + 1 < nT THEN "bc" ELSE "post"
    /\ UNCHANGED <<cfgVars, ecVars, err, gridVars, eps, delta, K0, DOR, outVars, runVars>>

\* E.run, "Denormalising"
ERunPost ==
    /\ impl = "E" /\ pc = "post"
    /\ IF nX < 3
       THEN /\ Raise("IndexError")
            /\ UNCHANGED outVars
       ELSE /\ i' = IF cRb # 0
                    THEN Current(par.n, par.Ageo, DR, cRb, FluxR(CR), dX, delta)
                    ELSE Current(par.n, par.Ageo, DO, cOb, FluxO(CO), dX, delta)
            /\ cR' = Denorm(CR, cRb)
            /\ cO' = Denorm(CO, cOb)
            /\ x' = Axis(X, delta)
            /\ pc' = "done" /\ err' = ""
    /\ UNCHANGED <<cfgVars, ecVars, gridVars, eps, delta, K0, DOR, CR, CO, k, runVars, rd>>

\* ------------------------------------------------------ simulate2
\* XGrid.__init__: x.A = diags([Cb,Cp,Ca],[-1,0,1]).toarray()/dX**2, then
\* row 0 replaced by (1, 0, ..., 0)
AEntry(r, c, dx) ==
    IF r = 0 THEN (IF c = 0 THEN Fx(1) ELSE 0)
    ELSE IF c = r THEN Div(Fx(-2), Mul(dx, dx))
    ELSE IF c = r - 1 \/ c = r + 1 THEN Div(Fx(1), Mul(dx, dx))
    ELSE 0

\* Kc = kc*delta/DR
KcOf(kc, de, dr) == Div(Mul(kc, de), dr)

\* Simulate.fun, the reaction term, per node: 0, -dT*Kc*y or dT*Kc*y
rate(v, mech, dt, kc) ==
    IF mech = "EC" THEN Mul(Mul(Neg(dt), kc), v)
    ELSE IF mech = "ECP" THEN Mul(Mul(dt, kc), v)
    ELSE 0

\* Simulate.fun: np.dot(species.A, y) + rate
fun(y, mech, dx, dt, kc) ==
    LET term(r, c) == IF c \in DOMAIN y THEN Mul(AEntry(r, c, dx), y[c]) ELSE 0
    IN  [r \in DOMAIN y |->
            ((term(r, r - 1) ++ term(r, r)) ++ term(r, r + 1))
            ++ rate(y[r], mech, dt, kc)]

\* Simulate.RK4
RK4(y, mech, dt, dx, kc) ==
    LET k1 == fun(y, mech, dx, dt, kc)
        k2 == fun([j \in DOMAIN y |-> y[j] ++ Div(Mul(dt, k1[j]), Fx(2))],
                  mech, dx, dt, kc)
        k3 == fun([j \in DOMAIN y |-> y[j] ++ Div(Mul(dt, k2[j]), Fx(2))],
                  mech, dx, dt, kc)
        k4 == fun([j \in DOMAIN y |-> y[j] ++ Mul(dt, k3[j])], mech, dx, dt, kc)
    IN  [j \in DOMAIN y |->
            y[j] ++ Mul(Div(dt, Fx(6)),
                        ((k1[j] ++ Times(2, k2[j])) ++ Times(2, k3[j])) ++ k4[j])]

\* the slice [1:-1] of a row
Inner(row, cols) == [j \in InteriorNodes(cols) |-> row[j]]

\* Simulate.sim, the boundary lines: <<sE.CR[k,0], sE.CO[k,0]>>
simBoundary(CR1kb, CO1kb, e, dx, Ke, al, dor) ==
    LET cr == Div(CR1kb ++ Mul(Mul(Mul(dx, Ke), Exp(Mul(-al, e))),
                               CO1kb ++ Div(CR1kb, dor)),
                  Fx(1) ++ Mul(Mul(dx, Ke),
                               Exp(Mul(Fx(1) - al, e))
                               ++ Div(Exp(Mul(-al, e)), dor)))
    IN  <<cr, CO1kb ++ Div(CR1kb -- cr, dor)>>

\* np.zeros([nT, nX])
Zeros(rows, cols) == [r \in 0..(rows - 1) |-> [j \in 0..(cols - 1) |-> 0]]

\* E.__init__ (species; DO/DR divides two Python floats) and
\* TGrid.__init__(twf, Ewf)
TGridInit ==
    /\ impl = "Simulate" /\ pc = "new"
    /\ IF DR = 0
       THEN /\ Raise("ZeroDivisionError")
            /\ UNCHANGED <<DOR, nT, dT>>
       ELSE /\ DOR' = Div(DO, DR)
            /\ nT' = Size(wf.t)
            /\ dT' = dTOf(nT')
            /\ pc' = "tgrid" /\ err' = ""
    /\ UNCHANGED <<cfgVars, ecVars, lamb, Xmax, dX, nX, X, eps, delta, K0, CR, CO, k,
                   outVars, runVars, rd>>

\* XGrid.__init__(species, tgrid): the space grid and the species' fields
XGridInit ==
    /\ impl = "Simulate" /\ pc = "tgrid"
    /\ lamb' = lambOf
    /\ Xmax' = XmaxOf(nT, lamb')
    /\ dX' = dXOf(dT, lamb')
    /\ nX' = nXOf(Xmax', dX')
    /\ X' = XOf(Xmax', nX')
    /\ CR' = InitCR(cRb, nT, nX')
    /\ CO' = InitCO(cOb, cRb, nT, nX')
    /\ eps' = epsOf(wf.E, par.E0, par.n)
    /\ delta' = deltaOf(DR, wf.t)
    /\ K0' = K0Of(par.ks, delta', DR)
    /\ CP' = IF par.mech = "EC" THEN Zeros(nT, nX') ELSE CP
    /\ pc' = "xgrid"
    /\ UNCHANGED <<cfgVars, Kc, cP, err, nT, dT, DOR, k, outVars, runVars, rd>>

\* Simulate.__init__(species, mech, tgrid, xgrid), with self.join(species)
SimulateInit ==
    /\ impl = "Simulate" /\ pc = "xgrid"
    /\ Kc' = IF par.mech = "EC" THEN KcOf(par.kc, delta, DR) ELSE Kc
    /\ pc' = "ready"
    /\ UNCHANGED <<cfgVars, CP, cP, err, gridVars, eps, delta, K0, DOR, CR, CO, k,
                   outVars, runVars, rd>>

\* Simulate.sim, entry
SimStart ==
    /\ impl = "Simulate" /\ pc = "ready"
    /\ k' = 1
    /\ pc' = IF 1 < nT THEN "bc" ELSE "post"
    /\ UNCHANGED <<cfgVars, ecVars, err, gridVars, eps, delta, K0, DOR, CR, CO, outVars,
                   runVars, rd>>

\* Simulate.sim, the boundary condition of step k; a released field (the
\* integer 0) cannot be subscripted, and eps has the length of the potential
\* array
SimBc ==
    /\ impl = "Simulate" /\ pc = "bc"
    /\ IF CR = <<>>
       THEN /\ Raise("TypeError")
            /\ UNCHANGED <<CR, CO, rd>>
       ELSE IF k \notin DOMAIN eps
       THEN /\ Raise("IndexError")
            /\ UNCHANGED <<CR, CO, rd>>
       ELSE /\ LET p == PrevRow(k)
                   s == simBoundary(CR[p][1], CO[p][1], eps[k], dX, K0,
                                    par.alpha, DOR)
               IN  /\ CR' = WriteRow(CR, k, 0 :> s[1])
                   /\ CO' = WriteRow(CO, k, 0 :> s[2])
                   /\ rd' = {p}
            /\ pc' = "diff" /\ err' = ""
    /\ UNCHANGED <<cfgVars, ecVars, gridVars, eps, delta, K0, DOR, k, outVars, runVars>>

\* Simulate.sim, the Runge-Kutta updates of step k: CR, then CO with the
\* mechanism's reaction term, then (mech 'EC') the field of the C species
SimRK4 ==
    /\ impl = "Simulate" /\ pc = "diff"
    /\ LET p == PrevRow(k)
       IN  /\ CR' = WriteRow(CR, k, Inner(RK4(CR[p], "E", dT, dX, Kc), nX))
           /\ CO' = WriteRow(CO, k, Inner(RK4(CO[p], par.mech, dT, dX, Kc), nX))
           /\ rd' = {p}
           /\ IF par.mech = "EC" /\ CP = <<>>
              THEN /\ Raise("TypeError")
                   /\ UNCHANGED <<CP, k>>
              ELSE /\ CP' = IF par.mech = "EC"
                            THEN WriteRow(WriteRow(CP, k, 0 :> CP[p][1]), k,
                                          Inner(RK4(CP[p], "ECP", dT, dX, Kc), nX))
                            ELSE CP
                   /\ k' = k + 1
                   /\ pc' = IF k + 1 < nT THEN "bc" ELSE "post"
                   /\ err' = ""
    /\ UNCHANGED <<cfgVars, Kc, cP, gridVars, eps, delta, K0, DOR, outVars, runVars>>

\* Simulate.sim, after the loop: the current and the axis from the E
\* species, cP from the C species, and the release of the fields of the last
\* species of the list
SimPost ==
    /\ impl = "Simulate" /\ pc = "post"
    /\ IF CR = <<>>
       THEN /\ Raise("TypeError")
            /\ UNCHANGED <<i, x, cP, CR, CO, CP>>
       ELSE IF nX < 3
       THEN /\ Raise("IndexError")
            /\ UNCHANGED <<i, x, cP, CR, CO, CP>>
       ELSE /\ i' = IF cRb # 0
                    THEN Current(par.n, par.Ageo, DR, cRb, FluxR(CR), dX, delta)
                    ELSE Current(par.n, par.Ageo, DO, cOb, FluxO(CO), dX, delta)
            /\ x' = Axis(X, delta)
            /\ IF par.mech = "EC"
               THEN cP' = CP /\ CP' = <<>> /\ UNCHANGED <<CR, CO>>
               ELSE CR' = <<>> /\ CO' = <<>> /\ UNCHANGED <<cP, CP>>
            /\ pc' = "done" /\ err' = ""
    /\ UNCHANGED <<cfgVars, Kc, gridVars, eps, delta, K0, DOR, k, cR, cO, runVars, rd>>

\* --------------------------------------------------------- a second run
\* the run operation called again on the same object
Rerun ==
    /\ pc = "done" /\ runs = 1
    /\ runs' = 2 /\ again' = "same" /\ first' = Outputs
    /\ pc' = "ready"
    /\ UNCHANGED <<cfgVars, ecVars, err, gridVars, eps, delta, K0, DOR, CR, CO, k, outVars, rd>>

\* the same configuration built again from scratch
Rebuild ==
    /\ pc = "done" /\ runs = 1
    /\ runs' = 2 /\ again' = "fresh" /\ first' = Outputs
    /\ pc' = "new" /\ err' = ""
    /\ nT' = 0 /\ dT' = 0 /\ lamb' = 0 /\ Xmax' = 0 /\ dX' = 0 /\ nX' = 0 /\ X' = <<>>
    /\ eps' = <<>> /\ delta' = 0 /\ K0' = 0 /\ DOR' = 0
    /\ CR' = <<>> /\ CO' = <<>> /\ CP' = <<>> /\ Kc' = 0
    /\ k' = 0
    /\ i' = <<>> /\ x' = <<>> /\ cR' = <<>> /\ cO' = <<>> /\ cP' = <<>>
    /\ rd' = {}
    /\ UNCHANGED cfgVars

Next ==
    \/ MacroInit \/ Emech \/ MacroSimStart \/ MacroSimBc \/ MacroSimInterior
    \/ MacroSimPost
    \/ EInit \/ ERunGrid \/ ERunBc \/ ERunInterior \/ ERunPost
    \/ TGridInit \/ XGridInit \/ SimulateInit \/ SimStart \/ SimBc \/ SimRK4
    \/ SimPost
    \/ Rerun \/ Rebuild

Spec == Init /\ [][Next]_vars

\* ------------------------------------------- inputs outside the contract
\* The constructors take any numbers and arrays.  One configuration inside
\* the contract, and the ones that leave it in a single respect.
GoodParams ==
    [BV |-> "QR", D |-> <<Fx(1), Fx(1)>>, c |-> <<0, Fx(1)>>, ks |-> Fx(1),
     alpha |-> Scale \div 2, n |-> 1, E0 |-> 0, Ageo |-> 1,
     mech |-> "E", kc |-> Fx(1)]

GoodWf == StepWf(-EStep, Fx(1), 3)

BadSpecies ==
    {[GoodParams EXCEPT !.c = <<Fx(1), Fx(1)>>],      \* both in the bulk
     [GoodParams EXCEPT !.c = <<0, 0>>],              \* neither
     [GoodParams EXCEPT !.D = <<0, Fx(1)>>],          \* DO = 0
     [GoodParams EXCEPT !.D = <<Fx(1), 0>>],          \* DR = 0
     [GoodParams EXCEPT !.D = <<Fx(1), -Fx(1)>>],     \* DR < 0
     [GoodParams EXCEPT !.ks = 0],
     [GoodParams EXCEPT !.ks = -Fx(1)]}

\* a tag that names no regime
BadTag == [GoodParams EXCEPT !.BV = "XX"]

\* a 40 V step: exp(-alpha*eps) overflows
FarStep == Fx(40)
FarWf == StepWf(-FarStep, Fx(1), 3)

BadWaveforms ==
    {[GoodWf EXCEPT !.t = 0 :> 0 @@ 1 :> Fx(1) @@ 2 :> Fx(1) \div 2],  \* t decreases
     [GoodWf EXCEPT !.t[1] = 0],                      \* a repeated time
     [GoodWf EXCEPT !.t[2] = NaN],
     [GoodWf EXCEPT !.E[1] = PInf],
     [GoodWf EXCEPT !.E = 0 :> -EStep @@ 1 :> -EStep],          \* E shorter
     [GoodWf EXCEPT !.E = [j \in 0..3 |-> -EStep]]}            \* E longer

AnyInputs ==
    {<<GoodWf, GoodParams>>, <<GoodWf, [GoodParams EXCEPT !.mech = "EC"]>>,
     <<GoodWf, BadTag>>, <<FarWf, GoodParams>>}
    \cup {<<GoodWf, p>> : p \in BadSpecies}
    \cup {<<w, GoodParams>> : w \in BadWaveforms}

InitAnyInput ==
    /\ impl \in {"Macro", "E", "Simulate"}
    /\ \E in \in AnyInputs : wf = in[1] /\ par = in[2]
    /\ impl # "Macro" => par.BV = "QR"
    /\ impl # "Simulate" => par.mech = "E"
    /\ pc = "new" /\ err = ""
    /\ nT = 0 /\ dT = 0 /\ lamb = 0 /\ Xmax = 0 /\ dX = 0 /\ nX = 0 /\ X = <<>>
    /\ eps = <<>> /\ delta = 0 /\ K0 = 0 /\ DOR = 0
    /\ CR = <<>> /\ CO = <<>> /\ CP = <<>> /\ Kc = 0
    /\ k = 0
    /\ i = <<>> /\ x = <<>> /\ cR = <<>> /\ cO = <<>> /\ cP = <<>>
    /\ runs = 1 /\ again = "" /\ first = <<>>
    /\ rd = {}
    /\ tgCall = <<>> /\ tgRet = <<>> /\ tgExc = ""
    /\ NoTimeVector /\ NoWaveformCall

SpecAnyInput == InitAnyInput /\ [][Next]_vars

\* ------------------------------------------------------------ timegrid.py
\* a comparison with a nan operand is False
Less(a, b) == a # NaN /\ b # NaN /\ a < b

\* np.round: to the nearest integer, ties to even
RoundHalfEven(a) ==
    LET f == a \div Scale
        r == a % Scale
    IN  IF 2 * r < Scale THEN f
        ELSE IF 2 * r > Scale THEN f + 1
        ELSE IF f % 2 = 0 THEN f ELSE f + 1

\* atol of np.isclose(steps, k, rtol=0.0, atol=1e-12): less than one unit
IsCloseAtol == 0

\* np.isclose(a, b, rtol=0.0, atol=1e-12) of finite a and b
IsClose(a, b) == Abs(a - b) <= IsCloseAtol

\* t_start + dt * np.arange(m)
Arange(tstart, dt, m) == [j \in 0..(m - 1) |-> tstart ++ Mul(dt, Fx(j))]

\* validate_time(t, strictly_increasing=...): the array, or ValueError when
\* an entry is not finite or the array is not strictly increasing (not
\* non-decreasing with strictly_increasing=False)
validate_time(t, strictly_increasing) ==
    IF \A j \in DOMAIN t :
           /\ Finite(t[j])
           /\ (j + 1) \in DOMAIN t =>
                  IF strictly_increasing THEN t[j] < t[j + 1]
                  ELSE t[j] <= t[j + 1]
    THEN [exc |-> "", t |-> t]
    ELSE [exc |-> "ValueError", t |-> <<>>]

\* __post_init__ validating with strictly_increasing=False
TimeGridLax(t) ==
    LET v == validate_time(t, FALSE)
    IN  IF v.exc # "" THEN [exc |-> v.exc, grid |-> <<>>]
        ELSE [exc |-> "", grid |-> [t |-> v.t]]

\* TimeGrid(t=t): __post_init__ stores the validated array
TimeGrid(t) ==
    LET v == validate_time(t, TRUE)
    IN  IF v.exc # "" THEN [exc |-> v.exc, grid |-> <<>>]
        ELSE [exc |-> "", grid |-> [t |-> v.t]]

\* n_calc = k: the end point left out
NCalcOpenEnd(kk) == kk

\* n_calc = k + 1
NCalc(kk) == kk + 1

\* the t_end branch after its argument checks: span, steps, k, the grid
GridToEnd(dt, tend, tstart) ==
    LET span == tend -- tstart
        steps == IF span # 0 THEN Div(span, dt) ELSE 0
    IN  IF steps = NaN THEN [exc |-> "ValueError", grid |-> <<>>]
        ELSE IF IsInf(steps) THEN [exc |-> "OverflowError", grid |-> <<>>]
        ELSE IF ~IsClose(steps, Fx(RoundHalfEven(steps)))
             THEN [exc |-> "ValueError", grid |-> <<>>]
        ELSE TimeGrid(Arange(tstart, dt, NCalc(RoundHalfEven(steps))))

\* uniform_time_grid(dt, n=, t_end=, t_start=): the exception raised and the
\* grid returned
uniform_time_grid(a) ==
    IF ~Finite(a.dt) \/ a.dt <= 0 THEN [exc |-> "ValueError", grid |-> <<>>]
    ELSE IF (a.n.kind = "None") = (a.t_end.kind = "None")
         THEN [exc |-> "ValueError", grid |-> <<>>]
    ELSE IF a.n.kind # "None"
         THEN IF a.n.kind # "int" \/ a.n.v < 1
              THEN [exc |-> "ValueError", grid |-> <<>>]
              ELSE TimeGrid(Arange(a.t_start, a.dt, a.n.v))
    ELSE IF ~Finite(a.t_end.v) THEN [exc |-> "ValueError", grid |-> <<>>]
    ELSE IF Less(a.t_end.v, a.t_start) THEN [exc |-> "ValueError", grid |-> <<>>]
    ELSE GridToEnd(a.dt, a.t_end.v, a.t_start)

\* TimeGrid.n, t_start, t_end
GridN(g) == Size(g.t)
GridStart(g) == g.t[0]
GridEnd(g) == g.t[GridN(g) - 1]

\* np.diff(t)
Diff(t) == [j \in 0..(Size(t) - 2) |-> t[j + 1] -- t[j]]

\* the entry of rank r (from 0) of the sorted array
Ranked(d, r) ==
    CHOOSE v \in {d[j] : j \in DOMAIN d} :
        /\ Cardinality({j \in DOMAIN d : d[j] < v}) <= r
        /\ Cardinality({j \in DOMAIN d : d[j] <= v}) > r

\* np.median
Median(d) ==
    LET m == Size(d)
    IN  IF m % 2 = 1 THEN Ranked(d, m \div 2)
        ELSE Div(Ranked(d, m \div 2 - 1) ++ Ranked(d, m \div 2), Fx(2))

\* TimeGrid.dt
GridDt(g) == IF GridN(g) < 2 THEN 0 ELSE Median(Diff(g.t))

\* the arguments: an absent one has kind "None"
None == [kind |-> "None", v |-> 0]
IntArg(m) == [kind |-> "int", v |-> m]
FloatArg(a) == [kind |-> "float", v |-> a]

MaxPoints == 4
Dts == {NaN, PInf, -(Scale \div 10), 0, Scale \div 10, Scale \div 4,
        (3 * Scale) \div 10, Fx(1)}
Ns == {None, FloatArg((3 * Scale) \div 2)} \cup {IntArg(m) : m \in (-1)..MaxPoints}
TEnds == {None} \cup {FloatArg(a) : a \in {NaN, PInf, -(Scale \div 10), 0,
                                        (3 * Scale) \div 10, Scale \div 2, Fx(1)}}
TStarts == {0, Scale \div 10, NInf, NaN}

Calls == [dt : Dts, n : Ns, t_end : TEnds, t_start : TStarts]

\* no simulator is built in the behaviours of the time grid
InitTimeGrid ==
    /\ impl = "" /\ wf = <<>> /\ par = <<>>
    /\ pc = "new" /\ err = ""
    /\ nT = 0 /\ dT = 0 /\ lamb = 0 /\ Xmax = 0 /\ dX = 0 /\ nX = 0 /\ X = <<>>
    /\ eps = <<>> /\ delta = 0 /\ K0 = 0 /\ DOR = 0
    /\ CR = <<>> /\ CO = <<>> /\ CP = <<>> /\ Kc = 0
    /\ k = 0
    /\ i = <<>> /\ x = <<>> /\ cR = <<>> /\ cO = <<>> /\ cP = <<>>
    /\ runs = 1 /\ again = "" /\ first = <<>>
    /\ rd = {}
    /\ tgCall \in Calls /\ tgRet = <<>> /\ tgExc = ""
    /\ NoTimeVector /\ NoWaveformCall

simVars == <<impl, wf, par, pc, err, gridVars, eps, delta, K0, DOR, CR, CO,
             ecVars, k, outVars, runVars, rd>>

UniformTimeGrid ==
    /\ tgCall # <<>> /\ tgRet = <<>> /\ tgExc = ""
    /\ LET r == uniform_time_grid(tgCall)
       IN  tgRet' = r.grid /\ tgExc' = r.exc
    /\ UNCHANGED <<tgCall, simVars, tvVars, wvVars>>

NextTimeGrid == UniformTimeGrid

SpecTimeGrid == InitTimeGrid /\ [][NextTimeGrid]_vars

\* ------------------------------------------------ TimeGrid as an object
\* The caller builds an array, constructs a TimeGrid from it or validates
\* it, and then uses what it holds: attribute assignment, as_array(), and
\* element writes through any array it has a reference to.
MaxLen == 3
MaxWrites == 2
TimeValues == {0, Scale \div 10, Scale \div 5, NaN}
TimeArrays == UNION {[0..(m - 1) -> TimeValues] : m \in 1..MaxLen}
WriteValues == {0, Fx(5)}

Objects == 1..3
\* the array the caller built
Given == 1

NoSimulator ==
    /\ impl = "" /\ wf = <<>> /\ par = <<>>
    /\ pc = "new" /\ err = ""
    /\ nT = 0 /\ dT = 0 /\ lamb = 0 /\ Xmax = 0 /\ dX = 0 /\ nX = 0 /\ X = <<>>
    /\ eps = <<>> /\ delta = 0 /\ K0 = 0 /\ DOR = 0
    /\ CR = <<>> /\ CO = <<>> /\ CP = <<>> /\ Kc = 0
    /\ k = 0
    /\ i = <<>> /\ x = <<>> /\ cR = <<>> /\ cO = <<>> /\ cP = <<>>
    /\ runs = 1 /\ again = "" /\ first = <<>>
    /\ rd = {}

InitTimeVector ==
    /\ NoSimulator /\ NoWaveformCall
    /\ tgCall = <<>> /\ tgRet = <<>> /\ tgExc = ""
    /\ \E a \in TimeArrays :
           heap = [id \in Objects |-> IF id = Given THEN a ELSE <<>>]
    /\ tg = <<>> /\ held = {Given} /\ built = <<>> /\ tvLast = <<>>
    /\ writes = 0

\* a new array object
Fresh(h) ==
    CHOOSE id \in Objects :
        h[id] = <<>> /\ \A o \in Objects : h[o] = <<>> => id <= o

\* the object validate_time returns: a new float64 array
Validated(h) == Fresh(h)

\* tg = TimeGrid(t=a)
NewTimeGrid ==
    /\ heap # <<>> /\ tg = <<>> /\ tvLast = <<>>
    /\ LET r == TimeGrid(heap[Given])
       IN  /\ tvLast' = [fn |-> "TimeGrid", strict |-> TRUE, arg |-> heap[Given],
                         out |-> IF r.exc = "" THEN r.grid.t ELSE <<>>,
                         exc |-> r.exc]
           /\ IF r.exc = ""
              THEN /\ heap' = [heap EXCEPT ![Validated(heap)] = r.grid.t]
                   /\ tg' = [t |-> Validated(heap)]
                   /\ built' = r.grid.t
              ELSE UNCHANGED <<heap, tg, built>>
    /\ UNCHANGED <<held, writes, simVars, tgVars, wvVars>>

\* out = validate_time(a, strictly_increasing=strict)
ValidateTime ==
    /\ heap # <<>> /\ tg = <<>> /\ tvLast = <<>>
    /\ \E strict \in BOOLEAN :
        LET r == validate_time(heap[Given], strict)
        IN  /\ tvLast' = [fn |-> "validate_time", strict |-> strict,
                          arg |-> heap[Given], out |-> r.t, exc |-> r.exc]
            /\ IF r.exc = ""
               THEN /\ heap' = [heap EXCEPT ![Validated(heap)] = r.t]
                    /\ held' = held \cup {Validated(heap)}
               ELSE UNCHANGED <<heap, held>>
    /\ UNCHANGED <<tg, built, writes, simVars, tgVars, wvVars>>

\* tg.t = other: the dataclass is frozen
SetAttribute ==
    /\ tg # <<>> /\ tvLast.fn # "setattr"
    /\ tvLast' = [fn |-> "setattr", strict |-> TRUE, arg |-> <<>>, out |-> <<>>,
                  exc |-> "FrozenInstanceError"]
    /\ UNCHANGED <<heap, tg, held, built, writes, simVars, tgVars, wvVars>>

\* v = tg.as_array(): return self.t
AsArray ==
    /\ tg # <<>> /\ tg.t \notin held
    /\ held' = held \cup {tg.t}
    /\ tvLast' = [fn |-> "as_array", strict |-> TRUE, arg |-> <<>>,
                  out |-> heap[tg.t], exc |-> ""]
    /\ UNCHANGED <<heap, tg, built, writes, simVars, tgVars, wvVars>>

\* a[j] = v on an array the caller holds
WriteElement ==
    /\ tg # <<>> /\ writes < MaxWrites
    /\ \E id \in held : \E j \in DOMAIN heap[id] : \E v \in WriteValues :
           heap' = [heap EXCEPT ![id][j] = v]
    /\ writes' = writes + 1
    /\ UNCHANGED <<tg, held, built, tvLast, simVars, tgVars, wvVars>>

NextTimeVector ==
    \/ NewTimeGrid \/ ValidateTime \/ SetAttribute \/ AsArray \/ WriteElement

SpecTimeVector == InitTimeVector /\ [][NextTimeVector]_vars

\* ---------------------------------------------------------- validation.py
\* np.floor of a non-negative quotient, as an integer
Floor(a) == a \div Scale

\* E[1:]
DropFirst(E) == [j \in 0..(Size(E) - 2) |-> E[j + 1]]

\* np.append(E, v)
Append0(E, v) == [j \in 0..Size(E) |-> IF j < Size(E) THEN E[j] ELSE v]

\* the segment with E1 appended whatever the last sample is
SegmentDoubledEnd(E, E1) == Append0(E, E1)

\* if not np.isclose(E[-1], E1, atol=atol, rtol=0.0): E = np.append(E, E1)
SegmentEnd(E, E1) == IF ~IsClose(Last(E), E1) THEN Append0(E, E1) ELSE E

\* build_potential_segment(E0, E1, dE, drop_first=...)
build_potential_segment(E0, E1, dE, drop_first) ==
    IF ~Finite(E0) \/ ~Finite(E1) \/ ~Finite(dE) \/ dE <= 0
    THEN [exc |-> "ValueError", E |-> <<>>]
    ELSE IF IsClose(E0, E1)
    THEN [exc |-> "", E |-> IF drop_first THEN DropFirst(0 :> E1) ELSE 0 :> E1]
    ELSE LET sign == IF E1 >= E0 THEN 1 ELSE -1
             step == Times(sign, dE)
             distance == Abs(E1 -- E0)
             n_full == Floor(Div(distance, dE))
             E == SegmentEnd([j \in 0..n_full |-> E0 ++ Mul(step, Fx(j))], E1)
         IN  [exc |-> "", E |-> IF drop_first THEN DropFirst(E) ELSE E]

\* ----------------------------------------------------------- waveforms.py
\* validate_waveform(w) of the stacked columns [E, t]: ValueError unless the
\* columns are finite, equally long, and the time column strictly increasing
validate_waveform(E, t) ==
    IF /\ Size(E) = Size(t)
       /\ \A j \in DOMAIN E : Finite(E[j])
       /\ validate_time(t, TRUE).exc = ""
    THEN "" ELSE "ValueError"

\* waveform_from_arrays(E, t): the (n, 2) array as its two columns
waveform_from_arrays(E, t) ==
    LET v == validate_time(t, TRUE)
    IN  IF v.exc # "" THEN [exc |-> v.exc, w |-> <<>>]
        ELSE IF Size(E) # Size(v.t) THEN [exc |-> "ValueError", w |-> <<>>]
        ELSE IF \E j \in DOMAIN E : ~Finite(E[j])
             THEN [exc |-> "ValueError", w |-> <<>>]
        ELSE IF validate_waveform(E, v.t) # ""
             THEN [exc |-> validate_waveform(E, v.t), w |-> <<>>]
        ELSE [exc |-> "", w |-> [E |-> E, t |-> v.t]]

\* _resolve_time(t=None, time_grid=None, dt=dt, t_end=t_end, t_start=t_start)
resolve_time(dt, t_end, t_start) ==
    LET r == uniform_time_grid([dt |-> dt, n |-> None, t_end |-> FloatArg(t_end),
                                t_start |-> t_start])
    IN  IF r.exc # "" THEN [exc |-> r.exc, t |-> <<>>]
        ELSE [exc |-> "", t |-> r.grid.t]

\* lsv(E_start, E_end, dt=dt, scan_rate=scan_rate)
lsv(E_start, E_end, dt, scan_rate) ==
    IF ~Finite(scan_rate) \/ scan_rate = 0
    THEN [exc |-> "ValueError", w |-> <<>>]
    ELSE LET duration == Div(Abs(E_end -- E_start), Abs(scan_rate))
             r == resolve_time(dt, duration, 0)
         IN  IF r.exc # "" THEN [exc |-> r.exc, w |-> <<>>]
             ELSE waveform_from_arrays(
                      IF Size(r.t) = 1 THEN 0 :> E_start
                      ELSE [j \in DOMAIN r.t |->
                               Linspace(E_start, E_end, Size(r.t), j)],
                      r.t)

\* EE = np.full(tt.shape, E_before); EE[tt >= t_step] = E_after
StepLevels(t, t_step, E_before, E_after) ==
    [j \in DOMAIN t |-> IF t[j] >= t_step THEN E_after ELSE E_before]

\* step(E_before, E_after, t_step, dt=dt, t_end=t_end)
step(E_before, E_after, t_step, dt, t_end) ==
    IF ~Finite(t_step) THEN [exc |-> "ValueError", w |-> <<>>]
    ELSE LET r == resolve_time(dt, t_end, 0)
         IN  IF r.exc # "" THEN [exc |-> r.exc, w |-> <<>>]
             ELSE IF Less(t_step, r.t[0]) \/ Less(Last(r.t), t_step)
                  THEN [exc |-> "ValueError", w |-> <<>>]
             ELSE waveform_from_arrays(
                      StepLevels(r.t, t_step, E_before, E_after), r.t)

\* the potential at cycle phase frac: the ramp E_start -> E_vertex while
\* frac < seg_ratio, then the ramp E_vertex -> E_return
Triangle(frac, seg_ratio, E_start, E_vertex, E_return) ==
    IF frac < seg_ratio
    THEN E_start ++ Mul(IF seg_ratio > 0 THEN Div(frac, seg_ratio) ELSE 0,
                        E_vertex -- E_start)
    ELSE E_vertex ++ Mul(IF seg_ratio < Fx(1)
                         THEN Div(frac -- seg_ratio, Fx(1) -- seg_ratio) ELSE 0,
                         E_return -- E_vertex)

\* u = (tt - tt[0])/total_span; uc = u*cycles; frac = uc - np.floor(uc)
Phase(t, j, cycles) ==
    LET uc == Mul(Div(t[j] -- t[0], Last(t) -- t[0]), Fx(cycles))
    IN  uc -- Fx(Floor(uc))

\* the potential column of cv on the time column t; EE[-1] = E_return
CvLevels(t, E_start, E_vertex, E_return, cycles) ==
    LET d1 == Abs(E_vertex -- E_start)
        d2 == Abs(E_return -- E_vertex)
    IN  IF d1 = 0 /\ d2 = 0 THEN [j \in DOMAIN t |-> E_start]
        ELSE [j \in DOMAIN t |->
                 IF j = Size(t) - 1 THEN E_return
                 ELSE Triangle(Phase(t, j, cycles), Div(d1, d1 ++ d2),
                               E_start, E_vertex, E_return)]

\* cv(E_start, E_vertex, E_return=..., cycles=..., dt=dt, scan_rate=scan_rate)
cv(E_start, E_vertex, E_return_arg, cycles, dt, scan_rate) ==
    LET E_return == IF E_return_arg.kind = "None" THEN E_start ELSE E_return_arg.v
    IN  IF cycles.kind # "int" \/ cycles.v < 1
        THEN [exc |-> "ValueError", w |-> <<>>]
        ELSE IF ~Finite(scan_rate) \/ scan_rate = 0
        THEN [exc |-> "ValueError", w |-> <<>>]
        ELSE LET seg1 == Div(Abs(E_vertex -- E_start), Abs(scan_rate))
                 seg2 == Div(Abs(E_return -- E_vertex), Abs(scan_rate))
                 total == Mul(seg1 ++ seg2, Fx(cycles.v))
                 r == resolve_time(dt, total, 0)
             IN  IF r.exc # "" THEN [exc |-> r.exc, w |-> <<>>]
                 ELSE IF Size(r.t) = 1
                      THEN waveform_from_arrays(0 :> E_start, r.t)
                 ELSE IF Last(r.t) -- r.t[0] <= 0
                      THEN [exc |-> "ValueError", w |-> <<>>]
                 ELSE waveform_from_arrays(
                          CvLevels(r.t, E_start, E_vertex, E_return, cycles.v),
                          r.t)

\* ----------------------------------------------------- tech.py: Construct
\* np.concatenate([a, b])
Concat(a, b) ==
    [j \in 0..(Size(a) + Size(b) - 1) |->
        IF j < Size(a) THEN a[j] ELSE b[j - Size(a)]]

\* the loop of Construct.__init__ from item m on:
\*   t = np.concatenate([t, wf[i].t + t[-1]]); E = np.concatenate([E, wf[i].E])
RECURSIVE ConstructLoop(_, _, _, _)
ConstructLoop(wfs, m, t, E) ==
    IF m > Len(wfs) THEN [t |-> t, E |-> E]
    ELSE ConstructLoop(wfs, m + 1,
             Concat(t, [j \in DOMAIN wfs[m].t |-> wfs[m].t[j] ++ Last(t)]),
             Concat(E, wfs[m].E))

\* Construct(wf): t = [0], E = [0], the loop, then t[1:] and E[1:]
Construct(wfs) ==
    LET r == ConstructLoop(wfs, 1, 0 :> 0, 0 :> 0)
    IN  [t |-> DropFirst(r.t), E |-> DropFirst(r.E)]

\* ------------------------------------------ calls of the waveform module
Potentials == {-(Scale \div 2), 0, (3 * Scale) \div 10, Fx(1), NaN}
Increments == {-(Scale \div 10), 0, Scale \div 4, (3 * Scale) \div 10,
               Scale \div 2, PInf}

SegmentCalls ==
    [fn : {"build_potential_segment"}, E0 : Potentials, E1 : Potentials,
     dE : Increments, drop_first : BOOLEAN]

\* a call gives its arguments by position, pos of them, and the rest by the
\* keywords of the signature
ScanRates == {-Fx(1), 0, Scale \div 2, Fx(1), PInf}
Ends == {0, (4 * Scale) \div 5, Fx(1)}

\* lsv(E_start, E_end, dE, scan_rate) and
\* lsv(E_start, E_end, dt=dE/scan_rate, scan_rate=scan_rate)
LsvCalls ==
    [fn : {"lsv"}, pos : {2, 4}, E_start : Ends, E_end : Ends \cup {NaN},
     dE : Increments \cup {NaN}, scan_rate : ScanRates]

TimeSteps == {-(Scale \div 10), 0, Scale \div 100, (3 * Scale) \div 100, NaN}
Durations == {-Fx(1), 0, Scale \div 25, Scale \div 10, PInf}

\* step(E_before, E_after, dt, t_end) and
\* step(E_before, E_after, 0.0, dt=dt, t_end=t_end)
StepCalls ==
    [fn : {"step"}, pos : {3, 4}, E_before : {0}, E_after : {Fx(1)},
     dt : TimeSteps, t_end : Durations]

Vertices == {-(Scale \div 2), (3 * Scale) \div 4, Fx(1)}
Cycles == {IntArg(-1), IntArg(0), IntArg(1), IntArg(2), FloatArg((3 * Scale) \div 2)}

\* cv(E_start, E_vertex, scan_rate, dE, E_end=E_end, cycles=cycles) and
\* cv(E_start, E_vertex, E_return=E_end, cycles=cycles, dt=dE/scan_rate,
\*    scan_rate=scan_rate)
CvCalls ==
    [fn : {"cv"}, pos : {2, 4}, E_start : {0}, E_vertex : Vertices,
     scan_rate : ScanRates, dE : Increments \cup {NaN},
     E_end : {None, FloatArg(0)}, cycles : Cycles]

MaxList == 2
ConstructCalls ==
    [fn : {"Construct"}, wf : UNION {[1..m -> Waveforms] : m \in 1..MaxList}]

WaveformCalls ==
    SegmentCalls \cup LsvCalls \cup StepCalls \cup CvCalls \cup ConstructCalls

InitWaveforms ==
    /\ NoSimulator /\ NoTimeVector
    /\ tgCall = <<>> /\ tgRet = <<>> /\ tgExc = ""
    /\ wvCall \in WaveformCalls /\ wvRet = <<>> /\ wvExc = ""

Pending(fn) == wvCall # <<>> /\ wvCall.fn = fn /\ wvRet = <<>> /\ wvExc = ""

BuildPotentialSegment ==
    /\ Pending("build_potential_segment")
    /\ LET r == build_potential_segment(wvCall.E0, wvCall.E1, wvCall.dE,
                                        wvCall.drop_first)
       IN  /\ wvExc' = r.exc
           /\ wvRet' = IF r.exc = "" THEN [E |-> r.E] ELSE <<>>
    /\ UNCHANGED <<wvCall, simVars, tgVars, tvVars>>

\* the time step that goes with a potential increment at a scan rate
KeywordDt(dE, scan_rate) ==
    IF Finite(scan_rate) /\ scan_rate # 0 THEN Div(dE, Abs(scan_rate)) ELSE dE

\* def lsv(E_start, E_end, *, ...): two positional parameters
Lsv ==
    /\ Pending("lsv")
    /\ LET r == IF wvCall.pos > 2 THEN [exc |-> "TypeError", w |-> <<>>]
                ELSE lsv(wvCall.E_start, wvCall.E_end,
                         KeywordDt(wvCall.dE, wvCall.scan_rate), wvCall.scan_rate)
       IN  wvExc' = r.exc /\ wvRet' = r.w
    /\ UNCHANGED <<wvCall, simVars, tgVars, tvVars>>

\* def step(E_before, E_after, t_step, *, ...): three positional parameters
Step ==
    /\ Pending("step")
    /\ LET r == IF wvCall.pos > 3 THEN [exc |-> "TypeError", w |-> <<>>]
                ELSE step(wvCall.E_before, wvCall.E_after, 0, wvCall.dt,
                          wvCall.t_end)
       IN  wvExc' = r.exc /\ wvRet' = r.w
    /\ UNCHANGED <<wvCall, simVars, tgVars, tvVars>>

\* def cv(E_start, E_vertex, *, E_return=None, cycles=1, ...): two positional
\* parameters, and no parameter named E_end
Cv ==
    /\ Pending("cv")
    /\ LET r == IF wvCall.pos > 2 THEN [exc |-> "TypeError", w |-> <<>>]
                ELSE cv(wvCall.E_start, wvCall.E_vertex, wvCall.E_end,
                        wvCall.cycles,
                        KeywordDt(wvCall.dE, wvCall.scan_rate), wvCall.scan_rate)
       IN  wvExc' = r.exc /\ wvRet' = r.w
    /\ UNCHANGED <<wvCall, simVars, tgVars, tvVars>>

\* w = tech.Construct(wf)
ConstructCall ==
    /\ Pending("Construct")
    /\ wvRet' = Construct(wvCall.wf)
    /\ UNCHANGED <<wvCall, wvExc, simVars, tgVars, tvVars>>

NextWaveforms == BuildPotentialSegment \/ Lsv \/ Step \/ Cv \/ ConstructCall

SpecWaveforms == InitWaveforms /\ [][NextWaveforms]_vars

\* ================================================================ claims
Half == Fx(1) \div 2
Allocated == CR # <<>>
Rows == 0..(nT - 1)
DoneRows == 1..(k - 1)          \* the rows the time loop has completed
Explicit == impl \in {"Macro", "E"}

\* C1: every grid that has been built has lamb < 0.5, and the ratio dT/dX^2
\* of its time and distance increments is below 0.5 too.
C1_StabilityRatio ==
    dX # 0 => (lamb < Half /\ Div(dT, Mul(dX, dX)) < Half /\ dT = Div(Fx(1), Fx(nT)))

C1_Witness == impl = "Simulate" /\ dX # 0 /\ nT = MaxNT /\ nX >= 3

\* C2: a grid with nX < 3 is never stepped on nor handed to the current
\* extraction: the construction that derives it fails.
C2_CoarseGridRejected ==
    (dX # 0 /\ nX < 3) => pc \notin {"bc", "diff", "post", "done"}

\* ---------------------------------------------------------------- C3
MassUlps == 2          \* rounding allowance per time step, in units

Total(r, j) == CO[r][j] + CR[r][j]

Conserved ==
    \A r \in Rows : \A j \in InteriorNodes(nX) :
        Abs(Total(r, j) - Total(0, j)) <= MassUlps * r

\* C3 as claimed: for any DO and DR, CO + CR at every interior node of every
\* row keeps the total of row 0 (to rounding).
C3_MassConservedAnyD == (Explicit /\ Allocated) => Conserved

\* C3 amended: with DO = DR, in every kinetic regime, CO + CR at every
\* interior node of every row keeps the total of row 0 (to rounding).
C3_MassConservedEqualD == (Explicit /\ Allocated /\ DO = DR) => Conserved

C3_Witness ==
    /\ impl = "Macro" /\ pc = "done" /\ DO = DR /\ par.BV = "OR" /\ nT = MaxNT
    /\ CR[nT - 1][1] # CR[0][1]

\* ---------------------------------------------------------------- C4
SecondRunAgrees == pc # "raised" /\ (pc = "done" => Outputs = first)

\* C4 as claimed: a second run of the same configuration, on fresh objects or
\* on the same object, completes and gives the outputs of the first run.
C4_RepeatAnyObject == runs = 2 => SecondRunAgrees

\* C4 amended: a second run on freshly built objects (all three simulators)
\* or on the same object (sim.Macro.sim, simulate.E.run) completes and gives
\* the outputs of the first run; simulate2.Simulate.sim has released its
\* fields and cannot be run again on the same objects.
C4_RepeatIdentical ==
    (runs = 2 /\ (again = "fresh" \/ Explicit)) => SecondRunAgrees

C4_Witness ==
    /\ runs = 2 /\ again = "same" /\ impl = "Macro" /\ pc = "done"
    /\ nT = MaxNT /\ i[nT - 1] # 0 /\ Outputs = first

SameExcept(C1, C2, kk, cells) ==
    \A r \in Rows : \A j \in 0..(nX - 1) :
        (r # kk \/ j \notin cells) => C2[r][j] = C1[r][j]

\* C6: in the explicit simulators the boundary solver of step k changes at
\* most CR[k,0] and CO[k,0], the stepper at most CR[k,j] and CO[k,j] for
\* j in 1..nX-2; row 0 stays the initial condition and the outermost column
\* keeps the initial bulk value in every row.
C6_WriteFrame ==
    [][ Explicit =>
        /\ pc = "bc" => (SameExcept(CR, CR', k, {0}) /\ SameExcept(CO, CO', k, {0}))
        /\ pc = "diff" => /\ SameExcept(CR, CR', k, InteriorNodes(nX))
                          /\ SameExcept(CO, CO', k, InteriorNodes(nX))
        /\ CR' # <<>> => /\ CR'[0] = InitCR(cRb, nT', nX')[0]
                         /\ CO'[0] = InitCO(cOb, cRb, nT', nX')[0]
                         /\ \A r \in 0..(nT' - 1) :
                               /\ CR'[r][nX' - 1] = CR'[0][nX' - 1]
                               /\ CO'[r][nX' - 1] = CO'[0][nX' - 1] ]_vars

C6_Witness ==
    /\ impl = "E" /\ pc = "post" /\ k = MaxNT
    /\ CO[k - 1][1] # CO[0][1] /\ CO[k - 1][0] # CO[0][0]
    /\ CO[k - 1][nX - 1] = CO[0][nX - 1]

\* ---------------------------------------------------------------- C7
\* the formulas of the claim, over the state's dX, K0, alpha and DOR
Kappa == Mul(dX, K0)
ExpRed(e) == Exp(Mul(-par.alpha, e))             \* exp(-alpha*eps)
ExpOx(e) == Exp(Mul(Fx(1) - par.alpha, e))       \* exp((1-alpha)*eps)

ClaimQR(CRp, COp, e) ==
    LET cr == Div(CRp + Mul(Mul(Kappa, ExpRed(e)), COp + Div(CRp, DOR)),
                  Fx(1) + Mul(Kappa, ExpOx(e) + Div(ExpRed(e), DOR)))
    IN  <<cr, COp + Div(CRp - cr, DOR)>>

ClaimRO(CRp, COp, e) ==
    LET cr == Div(CRp, Fx(1) + Mul(Kappa, ExpOx(e)))
    IN  <<cr, COp + Div(CRp - cr, DOR)>>

\* "the same form as RO with the roles of CO and CR swapped"
ClaimSwapped(CRp, COp, e) ==
    LET co == Div(COp, Fx(1) + Mul(Kappa, ExpOx(e)))
    IN  <<CRp + Div(COp - co, DOR), co>>

\* the swapped form with the exponent of the reduction, exp(-alpha*eps)
ClaimFallback(CRp, COp, e) ==
    LET co == Div(COp, Fx(1) + Mul(Kappa, ExpRed(e)))
    IN  <<CRp + Div(COp - co, DOR), co>>

\* the surface values of row k against a formula, once the boundary of step
\* k is solved (pc = "diff": CR[k,0], CO[k,0] written from row k-1, node 1)
Surface == <<CR[k][0], CO[k][0]>>
SurfaceIs(f(_, _, _)) == Surface = f(CR[k - 1][1], CO[k - 1][1], eps[k])
SameAsMacroQR ==
    Surface = bc("QR", CR[k - 1][1], CO[k - 1][1], eps[k], dX, K0, par.alpha, DOR)

\* C7 as claimed: Macro.bc returns the QR and RO formulas, and in the third
\* regime the RO form with CO and CR swapped; the boundary of simulate.E.run
\* and of simulate2.Simulate.sim is the QR branch of Macro.bc.
C7_BoundaryFormulasSwapped ==
    pc = "diff" =>
        /\ (impl = "Macro" /\ par.BV = "QR") => SurfaceIs(ClaimQR)
        /\ (impl = "Macro" /\ par.BV = "RO") => SurfaceIs(ClaimRO)
        /\ (impl = "Macro" /\ par.BV \notin {"QR", "RO"}) => SurfaceIs(ClaimSwapped)
        /\ impl # "Macro" => SameAsMacroQR

\* C7 amended: as claimed, except that the third regime (any tag other than
\* QR and RO; it is O -> R) returns CO = CO_prev/(1 + dX*K0*exp(-alpha*eps))
\* and CR = CR_prev + (CO_prev - CO)/DOR.
C7_BoundaryFormulas ==
    pc = "diff" =>
        /\ (impl = "Macro" /\ par.BV = "QR") => SurfaceIs(ClaimQR)
        /\ (impl = "Macro" /\ par.BV = "RO") => SurfaceIs(ClaimRO)
        /\ (impl = "Macro" /\ par.BV \notin {"QR", "RO"}) => SurfaceIs(ClaimFallback)
        /\ impl # "Macro" => SameAsMacroQR

C7_Witness ==
    /\ impl = "Macro" /\ pc = "diff" /\ par.BV = "OR" /\ k = MaxNT - 1
    /\ eps[k] # 0 /\ DO # DR /\ CO[k][0] # CO[k - 1][1]

\* ---------------------------------------------------------------- C8
NernstUlps == 12       \* rounding allowance, in units

\* |CO - exp(eps)*CR| at the surface of row k
NernstGap == Abs(CO[k][0] - Mul(Exp(eps[k]), CR[k][0]))

\* exp(alpha*eps)*|CR - CR_prev|/(dX*K0): it vanishes as K0 grows
NernstBound ==
    Div(Mul(Exp(Mul(par.alpha, eps[k])), Abs(CR[k][0] - CR[k - 1][1])), Kappa)

\* C8 as claimed: in every regime the surface values approach CO/CR =
\* exp(eps[k]) as K0 grows: the distance from it is at most a term of order
\* 1/K0.
C8_NernstAnyRegime ==
    (impl = "Macro" /\ pc = "diff") => NernstGap <= NernstBound + NernstUlps

\* C8 amended: in the QR regime the surface values approach CO/CR =
\* exp(eps[k]) as K0 grows: |CO - exp(eps)*CR| is at most
\* exp(alpha*eps)*|CR - CR_prev|/(dX*K0), to rounding.
C8_NernstQR ==
    (impl = "Macro" /\ pc = "diff" /\ par.BV = "QR") =>
        NernstGap <= NernstBound + NernstUlps

C8_Witness ==
    /\ impl = "Macro" /\ pc = "diff" /\ par.BV = "QR" /\ par.ks = Fx(20)
    /\ eps[k] < 0 /\ CR[k][0] # CR[k - 1][1]
    /\ NernstGap * 10 <= Fx(1)

\* ---------------------------------------------------------------- C9
\* the surface node of row r lies below its two neighbours
Depleted(C, r) == C[r][0] < C[r][1] /\ C[r][0] < C[r][2]

\* C9: with only O in the bulk, a negative overpotential that depletes O at
\* the surface gives i[k] < 0; with only R in the bulk, a positive one that
\* depletes R gives i[k] > 0; and i[0] = 0.
C9_SignConvention ==
    (Explicit /\ pc = "done") =>
        /\ i[0] = 0
        /\ \A r \in DoneRows :
              /\ (cRb = 0 /\ cOb > 0 /\ eps[r] < 0 /\ Depleted(CO, r)) => i[r] < 0
              /\ (cOb = 0 /\ cRb > 0 /\ eps[r] > 0 /\ Depleted(CR, r)) => i[r] > 0

\* ---------------------------------------------------------------- C10
\* C10: in both explicit simulators every completed row is the previous row
\* advanced with coefficient lamb for CR and lamb*DOR for CO.
C10_SameInteriorUpdate ==
    (Explicit /\ Allocated) =>
        \A r \in DoneRows : \A j \in InteriorNodes(nX) :
            /\ CR[r][j] = FTCS(CR[r - 1], lamb, nX)[j]
            /\ CO[r][j] = FTCS(CO[r - 1], Mul(DOR, lamb), nX)[j]

\* ---------------------------------------------------------------- C11
\* the bulk concentration that normalised the fields
cBulk == IF cRb # 0 THEN cRb ELSE cOb

\* every cell of the dimensional field c is the cell of the dimensionless
\* field C times cb, to rounding
Scaled(c, C, cb) ==
    \A r \in Rows : \A j \in 0..(nX - 1) :
        Abs(c[r][j] - Mul(C[r][j], cb)) <= MassUlps * nT

\* C11: after a run that reports concentration fields, cR = CR*c_bulk and
\* cO = CO*c_bulk in every cell, with c_bulk = cRb when R is in the bulk and
\* cOb when only O is, and x[j] = X[j]*delta.
C11_Denormalised ==
    (pc = "done" /\ cR # <<>>) =>
        /\ Scaled(cR, CR, cBulk)
        /\ Scaled(cO, CO, cBulk)
        /\ \A j \in 0..(nX - 1) : x[j] = Mul(X[j], delta)

\* ---------------------------------------------------------------- C12
\* C12: the distance axis of every grid that has been built has nX nodes,
\* and consecutive nodes are exactly dX = sqrt(dT/lamb) apart (to one unit
\* of rounding).
C12_AxisSpacing ==
    dX # 0 =>
        /\ Size(X) = nX
        /\ dX = Sqrt(Div(dT, lamb))
        /\ \A j \in 0..(nX - 2) : Abs(X[j + 1] - X[j] - dX) <= 1

\* ---------------------------------------------------------------- C13
\* the species parameters the specification admits
ValidSpecies ==
    /\ Finite(DO) /\ DO > 0 /\ Finite(DR) /\ DR > 0
    /\ Finite(par.ks) /\ par.ks > 0
    /\ Finite(cOb) /\ Finite(cRb)
    /\ (cOb > 0 /\ cRb = 0) \/ (cOb = 0 /\ cRb > 0)

Stepping == pc \in {"bc", "diff", "post", "done"}

\* C13: with a non-positive DO, DR or rate constant, or with both or neither
\* of cOb and cRb positive, no concentration field is ever allocated and no
\* time step ever runs: construction fails.
C13_SpeciesValidated == ~ValidSpecies => (CR = <<>> /\ CO = <<>> /\ ~Stepping)

\* ---------------------------------------------------------------- C14
\* C14: sim.Macro with a BV tag that names no regime never computes the
\* boundary of a time step with any regime's formula.
C14_UnknownTagRejected ==
    (impl = "Macro" /\ par.BV \notin Regimes) => pc \notin {"diff", "post", "done"}

\* ---------------------------------------------------------------- C15
\* a non-finite value in row r of a concentration field
BadRow(r) ==
    \/ \E j \in DOMAIN CR[r] : ~Finite(CR[r][j]) \/ ~Finite(CO[r][j])
    \/ CP # <<>> /\ \E j \in DOMAIN CP[r] : ~Finite(CP[r][j])

\* C15: once a completed step has written a non-finite value the run has
\* failed: the loop is not at a later step, and a finished run has only
\* finite entries in its current array.
C15_DivergenceDetected ==
    /\ (Allocated /\ \E r \in DoneRows : BadRow(r)) => pc = "raised"
    /\ pc = "done" => \A r \in DOMAIN i : Finite(i[r])

\* ---------------------------------------------------------------- C16
StrictlyIncreasing(t) ==
    \A j \in DOMAIN t : (j + 1) \in DOMAIN t => t[j] < t[j + 1]

AllFinite(a) == \A j \in DOMAIN a : Finite(a[j])

\* the waveforms the specification admits
ValidWaveform ==
    /\ AllFinite(wf.t) /\ AllFinite(wf.E)
    /\ StrictlyIncreasing(wf.t)
    /\ Size(wf.E) = Size(wf.t)

\* C16: with a time array that is not strictly increasing or not finite, or
\* a potential array that is not finite or not as long as the time array, no
\* grid and no concentration field is ever constructed.
C16_WaveformValidated ==
    ~ValidWaveform => (nT = 0 /\ dX = 0 /\ CR = <<>> /\ ~Stepping)

\* ---------------------------------------------------------------- C17
RunningEC == impl = "Simulate" /\ par.mech = "EC" /\ Allocated /\ CP # <<>>

\* C17: in the EC mechanism with Kc > 0 the product is fed by +Kc*CO: after
\* every completed step, CP is strictly positive at each interior node where
\* the previous row had CO > 0.
C17_ProductFedByO ==
    (RunningEC /\ Kc > 0) =>
        \A r \in DoneRows : \A j \in InteriorNodes(nX) :
            CO[r - 1][j] > 0 => CP[r][j] > 0

\* ---------------------------------------------------------------- C18
\* the right-hand side of the claim: A*y - Kc*y
ClaimFun(y) ==
    LET Ay == fun(y, "E", dX, dT, Kc)
    IN  [r \in DOMAIN y |-> Ay[r] -- Mul(Kc, y[r])]

\* one classical Runge-Kutta step of size dT of dC/dT = A*C - Kc*C
ClaimRK4(y) ==
    LET k1 == ClaimFun(y)
        k2 == ClaimFun([j \in DOMAIN y |-> y[j] ++ Div(Mul(dT, k1[j]), Fx(2))])
        k3 == ClaimFun([j \in DOMAIN y |-> y[j] ++ Div(Mul(dT, k2[j]), Fx(2))])
        k4 == ClaimFun([j \in DOMAIN y |-> y[j] ++ Mul(dT, k3[j])])
    IN  [j \in DOMAIN y |->
            y[j] ++ Mul(Div(dT, Fx(6)),
                        ((k1[j] ++ Times(2, k2[j])) ++ Times(2, k3[j])) ++ k4[j])]

\* C18: in the EC mechanism every completed row of CO is, at the interior
\* nodes, one Runge-Kutta step of size dT of dC/dT = A*C - Kc*C from the
\* previous row (to rounding).
C18_ReactionODE ==
    RunningEC =>
        \A r \in DoneRows : \A j \in InteriorNodes(nX) :
            Abs(CO[r][j] - ClaimRK4(CO[r - 1])[j]) <= MassUlps

\* ---------------------------------------------------------------- C19
Called == tgCall # <<>> /\ (tgRet # <<>> \/ tgExc # "")
NMode == tgCall.n.kind # "None" /\ tgCall.t_end.kind = "None"
EndMode == tgCall.n.kind = "None" /\ tgCall.t_end.kind # "None"

\* (t_end - t_start)/dt is a whole number (of finite arguments, dt > 0)
WholeSteps(a) ==
    /\ Finite(a.t_start)
    /\ (a.t_end.v - a.t_start) % a.dt = 0

\* the calls the claim has rejected
Rejectable(a) ==
    \/ ~Finite(a.dt) \/ a.dt <= 0
    \/ (a.n.kind = "None") = (a.t_end.kind = "None")
    \/ a.n.kind # "None" /\ (a.n.kind # "int" \/ a.n.v < 1)
    \/ a.t_end.kind # "None" /\
           (~Finite(a.t_end.v) \/ Less(a.t_end.v, a.t_start) \/ ~WholeSteps(a))

\* C19: a call with dt not finite or <= 0, with both or neither of n and
\* t_end, with n not an integer or < 1, with t_end not finite or < t_start,
\* or with (t_end - t_start)/dt not a whole number of steps, raises
\* ValueError and returns no TimeGrid.
C19_InvalidCallsRaiseValueError ==
    (Called /\ Rejectable(tgCall)) => (tgExc = "ValueError" /\ tgRet = <<>>)

\* ---------------------------------------------------------------- C20
Returned == tgCall # <<>> /\ tgRet # <<>>

\* round((t_end - t_start)/dt)
RoundSteps(a) == RoundHalfEven(Div(a.t_end.v -- a.t_start, a.dt))

\* the grid has the requested number of points, starts at t_start, has
\* constant spacing dt and, in t_end mode, ends at t_end
GridAsRequested ==
    /\ NMode => GridN(tgRet) = tgCall.n.v
    /\ EndMode => GridN(tgRet) = RoundSteps(tgCall) + 1
    /\ tgRet.t[0] = tgCall.t_start
    /\ \A j \in DOMAIN tgRet.t :
           (j + 1) \in DOMAIN tgRet.t => tgRet.t[j + 1] - tgRet.t[j] = tgCall.dt
    /\ EndMode => tgRet.t[GridN(tgRet) - 1] = tgCall.t_end.v
    /\ GridN(tgRet) = Size(tgRet.t)
    /\ GridStart(tgRet) = tgRet.t[0]
    /\ GridEnd(tgRet) = tgRet.t[Size(tgRet.t) - 1]

\* C20 as stated: every grid returned starts at t_start, is strictly
\* increasing with constant spacing dt, has n points in n mode and
\* round((t_end - t_start)/dt) + 1 points ending at t_end in t_end mode, and
\* its n, t_start, t_end and dt agree with it, dt being the spacing dt.
C20_Stated ==
    Returned => (GridAsRequested /\ GridDt(tgRet) = tgCall.dt)

\* C20: every grid returned starts at t_start, is strictly increasing with
\* constant spacing dt, has n points in n mode and round((t_end -
\* t_start)/dt) + 1 points ending at t_end in t_end mode, and its n,
\* t_start and t_end agree with it; its dt is the spacing dt when it has two
\* or more points and 0 when it has one.
C20_GridAsRequested ==
    Returned =>
        /\ GridAsRequested
        /\ GridDt(tgRet) = IF GridN(tgRet) >= 2 THEN tgCall.dt ELSE 0

C20_Witness ==
    /\ Returned /\ EndMode /\ GridN(tgRet) >= 3 /\ tgCall.t_start # 0
    /\ GridDt(tgRet) = tgCall.dt

\* ---------------------------------------------------------------- C21
\* some consecutive pair is equal or decreasing (or does not compare)
NotStrictlyIncreasing(t) ==
    \E j \in DOMAIN t : (j + 1) \in DOMAIN t /\ ~Less(t[j], t[j + 1])

NonDecreasing(t) ==
    \A j \in DOMAIN t : (j + 1) \in DOMAIN t => Less(t[j], t[j + 1]) \/ t[j] = t[j + 1]

HasRepeat(t) == \E j \in DOMAIN t : (j + 1) \in DOMAIN t /\ t[j] = t[j + 1]

\* C21: constructing a TimeGrid from an array with an equal or decreasing
\* consecutive pair raises ValueError and leaves no TimeGrid; validate_time
\* with strictly_increasing=False returns a finite non-decreasing array,
\* repeated values included, unchanged in values and shape.
C21_StrictTimeOnly ==
    tvLast # <<>> =>
        /\ (tvLast.fn = "TimeGrid" /\ NotStrictlyIncreasing(tvLast.arg)) =>
               (tvLast.exc = "ValueError" /\ tg = <<>>)
        /\ (tvLast.fn = "validate_time" /\ ~tvLast.strict
                /\ AllFinite(tvLast.arg) /\ NonDecreasing(tvLast.arg)) =>
               (tvLast.exc = "" /\ tvLast.out = tvLast.arg)

C21_Witness ==
    /\ tvLast # <<>> /\ tvLast.fn = "TimeGrid"
    /\ AllFinite(tvLast.arg) /\ HasRepeat(tvLast.arg)
    /\ tvLast.exc = "ValueError" /\ tg = <<>>

\* ---------------------------------------------------------------- C27
\* C27: the array a TimeGrid holds keeps the values it was constructed with,
\* strictly increasing, whatever the caller does with the references it has.
C27_TimeGridImmutable ==
    tg # <<>> => (heap[tg.t] = built /\ ~NotStrictlyIncreasing(heap[tg.t]))

\* ---------------------------------------------------------------- C26
SegmentReturned ==
    wvCall # <<>> /\ wvCall.fn = "build_potential_segment" /\ wvRet # <<>>

\* E with v put in front
Prepend0(v, E) == [j \in 0..Size(E) |-> IF j = 0 THEN v ELSE E[j - 1]]

\* a segment from E0 to E1: E0 first, E1 last, steps of dE towards E1 except
\* a last one of at most dE, no repeated sample
WellFormedSegment(E, E0, E1, dE) ==
    LET m == Size(E)
        dir == IF E1 >= E0 THEN 1 ELSE -1
    IN  /\ m >= 1 /\ E[0] = E0 /\ E[m - 1] = E1
        /\ E0 = E1 => m = 1
        /\ \A j \in 0..(m - 3) : E[j + 1] - E[j] = dir * dE
        /\ m >= 2 => /\ dir * (E[m - 1] - E[m - 2]) > 0
                     /\ dir * (E[m - 1] - E[m - 2]) <= dE

\* C26: for finite E0, E1 and dE > 0, build_potential_segment with
\* drop_first=False returns E0 first and E1 last, consecutive differences of
\* magnitude dE towards E1 except a last one that is positive and at most dE,
\* no duplicated end point, one sample when E0 = E1; with drop_first=True it
\* returns the same without the first sample.
C26_SegmentShape ==
    (SegmentReturned /\ Finite(wvCall.E0) /\ Finite(wvCall.E1)
        /\ Finite(wvCall.dE) /\ wvCall.dE > 0) =>
        WellFormedSegment(IF wvCall.drop_first
                          THEN Prepend0(wvCall.E0, wvRet.E) ELSE wvRet.E,
                          wvCall.E0, wvCall.E1, wvCall.dE)

C26_Witness ==
    /\ SegmentReturned /\ ~wvCall.drop_first
    /\ Size(wvRet.E) >= 4 /\ wvCall.E1 < wvCall.E0
    /\ wvRet.E[Size(wvRet.E) - 2] - wvRet.E[Size(wvRet.E) - 1] < wvCall.dE

\* ---------------------------------------------------------------- C22
Done(fn) == wvCall # <<>> /\ wvCall.fn = fn /\ (wvRet # <<>> \/ wvExc # "")
Positive(a) == Finite(a) /\ a > 0

\* the time column starts at 0 and advances by dt
UniformFromZero(t, dt) ==
    /\ t[0] = 0
    /\ \A j \in DOMAIN t : (j + 1) \in DOMAIN t => t[j + 1] - t[j] = dt

\* C22: lsv with finite E_start and E_end, dE > 0 and scan_rate > 0 returns
\* rows [E, t] in which E starts at E_start, moves towards E_end in steps of
\* dE and ends exactly at E_end without a duplicated end point, also when
\* |E_end - E_start| is not a multiple of dE, and t starts at 0 and
\* increases by dE/scan_rate.
C22_LsvSweep ==
    (Done("lsv") /\ Finite(wvCall.E_start) /\ Finite(wvCall.E_end)
        /\ Positive(wvCall.dE) /\ Positive(wvCall.scan_rate)) =>
        /\ wvExc = "" /\ wvRet # <<>>
        /\ Size(wvRet.E) = Size(wvRet.t)
        /\ WellFormedSegment(wvRet.E, wvCall.E_start, wvCall.E_end, wvCall.dE)
        /\ UniformFromZero(wvRet.t, Div(wvCall.dE, wvCall.scan_rate))

\* ---------------------------------------------------------------- C23
Count(E, v) == Cardinality({j \in DOMAIN E : E[j] = v})

\* C23: cv with finite potentials, E_vertex # E_start, dE > 0, scan_rate > 0,
\* E_end not given and c >= 1 cycles returns, on a time column that starts
\* at 0 and increases by dE/scan_rate, a potential column that starts and
\* ends at E_start, holds E_vertex exactly c times and E_start exactly c + 1
\* times, and has no two consecutive equal samples.
C23_CvCycles ==
    (Done("cv") /\ Positive(wvCall.dE) /\ Positive(wvCall.scan_rate)
        /\ wvCall.E_end.kind = "None"
        /\ wvCall.cycles.kind = "int" /\ wvCall.cycles.v >= 1) =>
        /\ wvExc = "" /\ wvRet # <<>>
        /\ Size(wvRet.E) = Size(wvRet.t)
        /\ UniformFromZero(wvRet.t, Div(wvCall.dE, wvCall.scan_rate))
        /\ wvRet.E[0] = wvCall.E_start /\ Last(wvRet.E) = wvCall.E_start
        /\ Count(wvRet.E, wvCall.E_vertex) = wvCall.cycles.v
        /\ Count(wvRet.E, wvCall.E_start) = wvCall.cycles.v + 1
        /\ \A j \in DOMAIN wvRet.E :
               (j + 1) \in DOMAIN wvRet.E => wvRet.E[j] # wvRet.E[j + 1]

\* ---------------------------------------------------------------- C24
\* C24: step with dt > 0 and t_end > 0 returns a waveform, also when t_end
\* is not a multiple of dt: its time column starts at 0 and advances by dt
\* with t_end - dt < t[-1] <= t_end, and with the step at t = 0 every
\* potential sample is E_after.
C24_StepKeepsDt ==
    (Done("step") /\ Positive(wvCall.dt) /\ Positive(wvCall.t_end)) =>
        /\ wvExc = "" /\ wvRet # <<>>
        /\ UniformFromZero(wvRet.t, wvCall.dt)
        /\ wvCall.t_end - wvCall.dt < Last(wvRet.t)
        /\ Last(wvRet.t) <= wvCall.t_end
        /\ \A j \in DOMAIN wvRet.E : wvRet.E[j] = wvCall.E_after

\* ---------------------------------------------------------------- C25
\* not a finite number greater than 0
BadMagnitude(a) == ~Finite(a) \/ a <= 0

\* C25: lsv and cv with scan_rate or dE not finite or <= 0, step with dt or
\* t_end not finite or <= 0, and cv with cycles < 1 raise ValueError and
\* return no waveform; cv with cycles not an integer raises ValueError or
\* TypeError.
C25_MagnitudesValidated ==
    /\ (Done("lsv") /\ (BadMagnitude(wvCall.scan_rate) \/ BadMagnitude(wvCall.dE)))
           => (wvExc = "ValueError" /\ wvRet = <<>>)
    /\ (Done("cv") /\ (BadMagnitude(wvCall.scan_rate) \/ BadMagnitude(wvCall.dE)))
           => (wvExc = "ValueError" /\ wvRet = <<>>)
    /\ (Done("step") /\ (BadMagnitude(wvCall.dt) \/ BadMagnitude(wvCall.t_end)))
           => (wvExc = "ValueError" /\ wvRet = <<>>)
    /\ (Done("cv") /\ wvCall.cycles.kind = "int" /\ wvCall.cycles.v < 1)
           => (wvExc = "ValueError" /\ wvRet = <<>>)
    /\ (Done("cv") /\ wvCall.cycles.kind # "int")
           => (wvExc \in {"ValueError", "TypeError"} /\ wvRet = <<>>)

\* ---------------------------------------------------------------- C28
RECURSIVE TotalLength(_, _)
TotalLength(wfs, m) ==
    IF m > Len(wfs) THEN 0 ELSE Size(wfs[m].t) + TotalLength(wfs, m + 1)

\* C28: Construct of one or more waveforms, each with a strictly increasing
\* time array that starts at 0, gives a strictly increasing time array, the
\* joins included, and a potential array of the same length, the sum of the
\* lengths of the inputs.
C28_ConstructIncreasing ==
    (Done("Construct")
        /\ \A m \in DOMAIN wvCall.wf :
               wvCall.wf[m].t[0] = 0 /\ ~NotStrictlyIncreasing(wvCall.wf[m].t)) =>
        /\ ~NotStrictlyIncreasing(wvRet.t)
        /\ Size(wvRet.E) = Size(wvRet.t)
        /\ Size(wvRet.t) = TotalLength(wvCall.wf, 1)

\* ---------------------------------------------------------------- C29
\* C29: when Simulate.sim has returned, the fields CR and CO of the E species
\* and CP of the C species are released, and the outputs i and x, and cP in
\* the EC mechanism, are there.
C29_AllFieldsReleased ==
    (impl = "Simulate" /\ pc = "done") =>
        /\ CR = <<>> /\ CO = <<>> /\ CP = <<>>
        /\ i # <<>> /\ x # <<>>
        /\ par.mech = "EC" => cP # <<>>

\* ---------------------------------------------------------------- C30
\* (CR - CR_prev) + DOR*(CO - CO_prev) at the surface of row k
FluxImbalance ==
    (CR[k][0] -- CR[k - 1][1]) ++ Mul(DOR, CO[k][0] -- CO[k - 1][1])

\* C30: in every regime of Macro.bc the surface values returned satisfy
\* (CR - CR_prev) + DOR*(CO - CO_prev) = 0 (to rounding), whatever DOR is.
C30_FluxBalance ==
    (impl = "Macro" /\ pc = "diff") => Abs(FluxImbalance) <= MassUlps

====
